---------------------------- MODULE Spec2Model ----------------------------
(***************************************************************************)
(* A model of gaussian_analyzer.py: the five extraction passes of          *)
(* GaussianAnalyzer.read_file, save_results and process_gaussian_files.    *)
(*                                                                         *)
(* Text.  A line of the report is a sequence of symbols.  A symbol is one  *)
(* character (a digit, "-", ".", "=", ":", " ", "\n") or a run of          *)
(* non-blank characters that the program only ever handles as a whole (a   *)
(* word such as "Standard", the 20-dash rule, the "--" delimiter).  The    *)
(* string operations of the program (in, split, strip, lower, isdigit,     *)
(* int, float, re.search) are computed on these sequences.                 *)
(*                                                                         *)
(* Numbers.  A float parsed from a decimal literal is kept exactly, as a   *)
(* record [m, e] standing for m * 10^(-e) with no trailing zero in the     *)
(* fraction, so that two literals are equal as floats exactly when their   *)
(* records are equal.                                                      *)
(***************************************************************************)
EXTENDS Integers, Sequences, FiniteSets, TLC

VARIABLES
    content,          \* read_file: the lines of the report, in file order
    data,             \* GaussianAnalyzer.data, the extraction record
    pc,               \* the pass that is running, "done" or "error"
    reading_geom,     \* _extract_geometries: inside a block
    current_geom,     \* _extract_geometries: the atoms accumulated so far
    geom_shared,      \* current_geom is the list object last appended to geometries
    current_profile,  \* _extract_frequencies: the open profile, or None
    raised,           \* the exception that left the scan, or "none"
    passes_run,       \* read_file: the passes that have returned, in order
    listing,          \* process_gaussian_files: os.listdir(input_dir)
    directory,        \* the files behind the names of the listing
    fidx,             \* process_gaussian_files: position in the listing
    bpc,              \* process_gaussian_files: position in the loop body
    log,              \* process_gaussian_files: what has been printed
    artifacts         \* the files written by save_results

scanVars == <<content, data, pc, reading_geom, current_geom, geom_shared,
              current_profile, raised, passes_run>>
batchVars == <<listing, directory, fidx, bpc, log, artifacts>>
vars == <<content, data, pc, reading_geom, current_geom, geom_shared,
          current_profile, raised, passes_run,
          listing, directory, fidx, bpc, log, artifacts>>

\* current_profile: None, or an open list of values
None == [open |-> FALSE, values |-> <<>>]

Open(values) == [open |-> TRUE, values |-> values]

-----------------------------------------------------------------------------
(* Bounds of the model *)

MaxGeomLines == 6

MaxFreqLines == 5

MaxEnergyLines == 4

MaxInfoLines == 5

MaxElecLines == 3

MaxFiles == 3

-----------------------------------------------------------------------------
(* Strings *)

Whitespace == {" ", "\n", "\t"}

Digits == {"0", "1", "2", "3", "4", "5", "6", "7", "8", "9"}

DigitVal(c) ==
    CASE c = "0" -> 0 [] c = "1" -> 1 [] c = "2" -> 2 [] c = "3" -> 3
      [] c = "4" -> 4 [] c = "5" -> 5 [] c = "6" -> 6 [] c = "7" -> 7
      [] c = "8" -> 8 [] c = "9" -> 9

\* `pat in s`
Contains(s, pat) ==
    \E k \in 0..(Len(s) - Len(pat)) : SubSeq(s, k + 1, k + Len(pat)) = pat

\* s.strip()
Strip(s) ==
    LET keep == {k \in 1..Len(s) : s[k] \notin Whitespace}
    IN  IF keep = {} THEN <<>>
        ELSE LET lo == CHOOSE k \in keep : \A m \in keep : k <= m
                 hi == CHOOSE k \in keep : \A m \in keep : m <= k
             IN  SubSeq(s, lo, hi)

\* s.split(): the maximal runs of non-blank symbols, in order
RECURSIVE SplitFrom(_, _, _)
SplitFrom(s, k, tok) ==
    IF k > Len(s) THEN (IF tok = <<>> THEN <<>> ELSE <<tok>>)
    ELSE IF s[k] \in Whitespace
         THEN (IF tok = <<>> THEN <<>> ELSE <<tok>>) \o SplitFrom(s, k + 1, <<>>)
         ELSE SplitFrom(s, k + 1, Append(tok, s[k]))

Split(s) == SplitFrom(s, 1, <<>>)

\* tok.isdigit()
IsDigit(tok) == Len(tok) > 0 /\ \A k \in 1..Len(tok) : tok[k] \in Digits

RECURSIVE DigitsValue(_)
DigitsValue(ds) ==
    IF ds = <<>> THEN 0
    ELSE 10 * DigitsValue(SubSeq(ds, 1, Len(ds) - 1)) + DigitVal(ds[Len(ds)])

Unsigned(tok) ==
    IF Len(tok) > 0 /\ tok[1] \in {"-", "+"} THEN Tail(tok) ELSE tok

Sign(tok) == IF Len(tok) > 0 /\ tok[1] = "-" THEN -1 ELSE 1

\* int(tok) returns (an optional sign, then digits); otherwise it raises ValueError
IntLiteral(tok) == IsDigit(Unsigned(tok))

ParseInt(tok) == Sign(tok) * DigitsValue(Unsigned(tok))

\* float(tok) returns (an optional sign, then digits with at most one point and
\* at least one digit); otherwise it raises ValueError
FloatLiteral(tok) ==
    LET u    == Unsigned(tok)
        dots == {k \in 1..Len(u) : u[k] = "."}
    IN  /\ Cardinality(dots) <= 1
        /\ \A k \in 1..Len(u) : u[k] \in Digits \cup {"."}
        /\ \E k \in 1..Len(u) : u[k] \in Digits

RECURSIVE Normal(_, _)
Normal(m, e) ==
    IF e > 0 /\ m % 10 = 0 THEN Normal(m \div 10, e - 1) ELSE [m |-> m, e |-> e]

ParseFloat(tok) ==
    LET u    == Unsigned(tok)
        dots == {k \in 1..Len(u) : u[k] = "."}
        dot  == IF dots = {} THEN Len(u) + 1 ELSE CHOOSE k \in dots : TRUE
        ds   == SubSeq(u, 1, dot - 1) \o SubSeq(u, dot + 1, Len(u))
        mag  == Normal(DigitsValue(ds), IF dots = {} THEN 0 ELSE Len(u) - dot)
    IN  [m |-> Sign(tok) * mag.m, e |-> mag.e]

-----------------------------------------------------------------------------
(* Lines of a report, as far as the geometry pass tells them apart *)

STANDARD_ORIENTATION == <<"Standard", " ", "orientation">>
DASHES               == <<"--------------------">>
ROTATIONAL_CONSTANTS == <<"Rotational", " ", "constants">>

SO_LINE   == <<" ", "Standard", " ", "orientation", ":", "\n">>
DASH_LINE == <<" ", "--------------------", "--------------------", "\n">>
HDR_LINE  == <<" ", "Number", " ", "Number", " ", "Type", " ",
               "X", " ", "Y", " ", "Z", "\n">>
ROT_LINE  == <<" ", "Rotational", " ", "constants", " ", "(GHZ)", ":", "\n">>
\*   1  8  0  0.0  0.0  0.0
ROW_O     == <<" ", "1", " ", "8", " ", "0", " ", "0", ".", "0", " ",
               "0", ".", "0", " ", "0", ".", "0", "\n">>
\*   2  0  0  0.0  1.50  -0.96      (a ghost atom: atomic number 0)
ROW_GHOST == <<" ", "2", " ", "0", " ", "0", " ", "0", ".", "0", " ",
               "1", ".", "5", "0", " ", "-", "0", ".", "9", "6", "\n">>
\*   3  1  0  0.0  ********  0.0    (a coordinate too wide for its field)
ROW_BAD   == <<" ", "3", " ", "1", " ", "0", " ", "0", ".", "0", " ",
               "********", " ", "0", ".", "0", "\n">>

\*  Rotational constants (GHZ): --------------------
ROT_DASHED == <<" ", "Rotational", " ", "constants", " ", "(GHZ)", ":", " ",
                "--------------------", "\n">>

GeomLines == {SO_LINE, DASH_LINE, HDR_LINE, ROT_LINE, ROW_O, ROW_GHOST, ROW_BAD}

\* the lines of a block and its end, with the line that holds two triggers
TerminatorLines == {SO_LINE, ROT_LINE, ROT_DASHED, ROW_O, ROW_GHOST, ROW_BAD}

-----------------------------------------------------------------------------
(* GaussianAnalyzer.__init__ *)

EmptyRecord ==
    [energies             |-> <<>>,
     geometries           |-> <<>>,
     frequency_profiles   |-> <<>>,
     electronic_structure |-> <<>>,
     calculation_info     |-> <<>>]

-----------------------------------------------------------------------------
(* _extract_geometries: one iteration of the loop over the lines.  The      *)
(* result carries the locals, the geometries field and whether int() or    *)
(* float() raised.  geometries holds references: while shared is TRUE the   *)
(* last snapshot of geometries and current_geom are one list.              *)

AtomRowShape(parts) == Len(parts) = 6 /\ IsDigit(parts[1])

AtomRowParses(parts) ==
    IntLiteral(parts[2]) /\ \A k \in 4..6 : FloatLiteral(parts[k])

\* AtomRecord with parts[3:5] for parts[3:6]
AtomRecordTwoCoordinates(parts) ==
    [atomic_number |-> ParseInt(parts[2]),
     coordinates   |-> <<ParseFloat(parts[4]), ParseFloat(parts[5])>>]

AtomRecord(parts) ==
    [atomic_number |-> ParseInt(parts[2]),
     coordinates   |-> <<ParseFloat(parts[4]), ParseFloat(parts[5]), ParseFloat(parts[6])>>]

\* GeomStep with line 129 (current_geom = []) left out
GeomStepKeepsAtoms(reading, cur, shared, geoms, line) ==
    LET same == [reading_geom |-> reading, current_geom |-> cur,
                 geom_shared |-> shared, geometries |-> geoms, raised |-> "none"]
        parts == Split(line)
    IN  IF Contains(line, STANDARD_ORIENTATION)
        THEN [same EXCEPT !.reading_geom = TRUE]
        ELSE IF ~reading THEN same
        ELSE IF Contains(line, DASHES) THEN same
        ELSE IF Contains(line, ROTATIONAL_CONSTANTS)
        THEN IF cur # <<>>
             THEN [same EXCEPT !.reading_geom = FALSE, !.geom_shared = TRUE,
                               !.geometries = Append(geoms, cur)]
             ELSE [same EXCEPT !.reading_geom = FALSE]
        ELSE IF ~AtomRowShape(parts) THEN same
        ELSE IF ~AtomRowParses(parts) THEN [same EXCEPT !.raised = "ValueError"]
        ELSE LET grown == Append(cur, AtomRecord(parts))
             IN  [same EXCEPT !.current_geom = grown,
                              !.geometries = IF shared
                                             THEN [geoms EXCEPT ![Len(geoms)] = grown]
                                             ELSE geoms]

\* GeomStep with current_geom.clear() for line 129 (current_geom = [])
GeomStepClearsInPlace(reading, cur, shared, geoms, line) ==
    LET same == [reading_geom |-> reading, current_geom |-> cur,
                 geom_shared |-> shared, geometries |-> geoms, raised |-> "none"]
        parts == Split(line)
    IN  IF Contains(line, STANDARD_ORIENTATION)
        THEN [same EXCEPT !.reading_geom = TRUE, !.current_geom = <<>>,
                          !.geometries = IF shared
                                         THEN [geoms EXCEPT ![Len(geoms)] = <<>>]
                                         ELSE geoms]
        ELSE IF ~reading THEN same
        ELSE IF Contains(line, DASHES) THEN same
        ELSE IF Contains(line, ROTATIONAL_CONSTANTS)
        THEN IF cur # <<>>
             THEN [same EXCEPT !.reading_geom = FALSE, !.geom_shared = TRUE,
                               !.geometries = Append(geoms, cur)]
             ELSE [same EXCEPT !.reading_geom = FALSE]
        ELSE IF ~AtomRowShape(parts) THEN same
        ELSE IF ~AtomRowParses(parts) THEN [same EXCEPT !.raised = "ValueError"]
        ELSE LET grown == Append(cur, AtomRecord(parts))
             IN  [same EXCEPT !.current_geom = grown,
                              !.geometries = IF shared
                                             THEN [geoms EXCEPT ![Len(geoms)] = grown]
                                             ELSE geoms]

\* GeomStep with the atoms gathered appended at a marker met inside a block
GeomStepMarkerFlushes(reading, cur, shared, geoms, line) ==
    LET same == [reading_geom |-> reading, current_geom |-> cur,
                 geom_shared |-> shared, geometries |-> geoms, raised |-> "none"]
        parts == Split(line)
    IN  IF Contains(line, STANDARD_ORIENTATION)
        THEN [same EXCEPT !.reading_geom = TRUE, !.current_geom = <<>>,
                          !.geom_shared = FALSE,
                          !.geometries = IF reading /\ cur # <<>>
                                         THEN Append(geoms, cur) ELSE geoms]
        ELSE IF ~reading THEN same
        ELSE IF Contains(line, DASHES) THEN same
        ELSE IF Contains(line, ROTATIONAL_CONSTANTS)
        THEN IF cur # <<>>
             THEN [same EXCEPT !.reading_geom = FALSE, !.geom_shared = TRUE,
                               !.geometries = Append(geoms, cur)]
             ELSE [same EXCEPT !.reading_geom = FALSE]
        ELSE IF ~AtomRowShape(parts) THEN same
        ELSE IF ~AtomRowParses(parts) THEN [same EXCEPT !.raised = "ValueError"]
        ELSE LET grown == Append(cur, AtomRecord(parts))
             IN  [same EXCEPT !.current_geom = grown,
                              !.geometries = IF shared
                                             THEN [geoms EXCEPT ![Len(geoms)] = grown]
                                             ELSE geoms]

\* GeomStep with line 136 (reading_geom = False) left out
GeomStepStaysInside(reading, cur, shared, geoms, line) ==
    LET same == [reading_geom |-> reading, current_geom |-> cur,
                 geom_shared |-> shared, geometries |-> geoms, raised |-> "none"]
        parts == Split(line)
    IN  IF Contains(line, STANDARD_ORIENTATION)
        THEN [same EXCEPT !.reading_geom = TRUE, !.current_geom = <<>>,
                          !.geom_shared = FALSE]
        ELSE IF ~reading THEN same
        ELSE IF Contains(line, DASHES) THEN same
        ELSE IF Contains(line, ROTATIONAL_CONSTANTS)
        THEN IF cur # <<>>
             THEN [same EXCEPT !.geom_shared = TRUE, !.geometries = Append(geoms, cur)]
             ELSE same
        ELSE IF ~AtomRowShape(parts) THEN same
        ELSE IF ~AtomRowParses(parts) THEN [same EXCEPT !.raised = "ValueError"]
        ELSE LET grown == Append(cur, AtomRecord(parts))
             IN  [same EXCEPT !.current_geom = grown,
                              !.geometries = IF shared
                                             THEN [geoms EXCEPT ![Len(geoms)] = grown]
                                             ELSE geoms]

\* GeomStep with line 137 (if current_geom:) left out
GeomStepAppendsEmpty(reading, cur, shared, geoms, line) ==
    LET same == [reading_geom |-> reading, current_geom |-> cur,
                 geom_shared |-> shared, geometries |-> geoms, raised |-> "none"]
        parts == Split(line)
    IN  IF Contains(line, STANDARD_ORIENTATION)
        THEN [same EXCEPT !.reading_geom = TRUE, !.current_geom = <<>>,
                          !.geom_shared = FALSE]
        ELSE IF ~reading THEN same
        ELSE IF Contains(line, DASHES) THEN same
        ELSE IF Contains(line, ROTATIONAL_CONSTANTS)
        THEN [same EXCEPT !.reading_geom = FALSE, !.geom_shared = TRUE,
                          !.geometries = Append(geoms, cur)]
        ELSE IF ~AtomRowShape(parts) THEN same
        ELSE IF ~AtomRowParses(parts) THEN [same EXCEPT !.raised = "ValueError"]
        ELSE LET grown == Append(cur, AtomRecord(parts))
             IN  [same EXCEPT !.current_geom = grown,
                              !.geometries = IF shared
                                             THEN [geoms EXCEPT ![Len(geoms)] = grown]
                                             ELSE geoms]

GeomStep(reading, cur, shared, geoms, line) ==
    LET same == [reading_geom |-> reading, current_geom |-> cur,
                 geom_shared |-> shared, geometries |-> geoms, raised |-> "none"]
        parts == Split(line)
    IN  IF Contains(line, STANDARD_ORIENTATION)
        THEN [same EXCEPT !.reading_geom = TRUE, !.current_geom = <<>>,
                          !.geom_shared = FALSE]
        ELSE IF ~reading THEN same
        ELSE IF Contains(line, DASHES) THEN same
        ELSE IF Contains(line, ROTATIONAL_CONSTANTS)
        THEN IF cur # <<>>
             THEN [same EXCEPT !.reading_geom = FALSE, !.geom_shared = TRUE,
                               !.geometries = Append(geoms, cur)]
             ELSE [same EXCEPT !.reading_geom = FALSE]
        ELSE IF ~AtomRowShape(parts) THEN same
        ELSE IF ~AtomRowParses(parts) THEN [same EXCEPT !.raised = "ValueError"]
        ELSE LET grown == Append(cur, AtomRecord(parts))
             IN  [same EXCEPT !.current_geom = grown,
                              !.geometries = IF shared
                                             THEN [geoms EXCEPT ![Len(geoms)] = grown]
                                             ELSE geoms]

-----------------------------------------------------------------------------
(* The geometry pass on its own, line by line.  The loop takes the lines   *)
(* one at a time and never looks ahead, so the report is unfolded as it is *)
(* read: content is the part of the file the loop has been handed.         *)

BatchIdle ==
    /\ listing = <<>>
    /\ directory = <<>>
    /\ fidx = 1
    /\ bpc = "idle"
    /\ log = <<>>
    /\ artifacts = <<>>

ScanStart(pass) ==
    /\ content = <<>>
    /\ data = EmptyRecord
    /\ pc = pass
    /\ reading_geom = FALSE
    /\ current_geom = <<>>
    /\ geom_shared = FALSE
    /\ current_profile = None
    /\ raised = "none"
    /\ passes_run = <<>>

InitGeom == ScanStart("geometries") /\ BatchIdle

GeomLineFrom(lines) ==
    /\ pc = "geometries"
    /\ Len(content) < MaxGeomLines
    /\ \E line \in lines :
         LET r == GeomStep(reading_geom, current_geom, geom_shared,
                           data.geometries, line)
         IN  /\ r.raised = "none"
             /\ content' = Append(content, line)
             /\ reading_geom' = r.reading_geom
             /\ current_geom' = r.current_geom
             /\ geom_shared' = r.geom_shared
             /\ data' = [data EXCEPT !.geometries = r.geometries]
    /\ UNCHANGED <<pc, current_profile, raised, passes_run>>
    /\ UNCHANGED batchVars

GeomLine == GeomLineFrom(GeomLines)

GeomRaiseFrom(lines) ==
    /\ pc = "geometries"
    /\ Len(content) < MaxGeomLines
    /\ \E line \in lines :
         LET r == GeomStep(reading_geom, current_geom, geom_shared,
                           data.geometries, line)
         IN  /\ r.raised # "none"
             /\ content' = Append(content, line)
             /\ raised' = r.raised
    /\ pc' = "error"
    /\ UNCHANGED <<data, reading_geom, current_geom, geom_shared,
                   current_profile, passes_run>>
    /\ UNCHANGED batchVars

GeomRaise == GeomRaiseFrom(GeomLines)

\* GeomEnd with a flush of the open block at the end of input
GeomEndFlushes ==
    /\ pc = "geometries"
    /\ pc' = "done"
    /\ passes_run' = Append(passes_run, "geometries")
    /\ data' = IF reading_geom /\ current_geom # <<>>
               THEN [data EXCEPT !.geometries = Append(@, current_geom)]
               ELSE data
    /\ UNCHANGED <<content, reading_geom, current_geom, geom_shared,
                   current_profile, raised>>
    /\ UNCHANGED batchVars

GeomEnd ==
    /\ pc = "geometries"
    /\ pc' = "done"
    /\ passes_run' = Append(passes_run, "geometries")
    /\ UNCHANGED <<content, data, reading_geom, current_geom, geom_shared,
                   current_profile, raised>>
    /\ UNCHANGED batchVars

NextGeom == GeomLine \/ GeomRaise \/ GeomEnd

SpecGeom == InitGeom /\ [][NextGeom]_vars

\* the geometry pass over the lines that end a block or look as if they did
NextGeomTerminators ==
    GeomLineFrom(TerminatorLines) \/ GeomRaiseFrom(TerminatorLines) \/ GeomEnd

SpecGeomTerminators == InitGeom /\ [][NextGeomTerminators]_vars

-----------------------------------------------------------------------------
(* The geometry blocks of a line sequence, read off the lines themselves.  *)
(* A line is a marker, else a separator, else a terminator, else a row     *)
(* (six tokens, the first an integer literal), else of no interest.        *)

GeomClassOf ==
    [l \in GeomLines |->
        IF Contains(l, STANDARD_ORIENTATION) THEN "marker"
        ELSE IF Contains(l, DASHES) THEN "separator"
        ELSE IF Contains(l, ROTATIONAL_CONSTANTS) THEN "terminator"
        ELSE IF Len(Split(l)) = 6 /\ IsDigit(Split(l)[1]) THEN "row"
        ELSE "other"]

\* the record the claim describes for an atom row: token[1] and tokens[3..5]
AtomOf ==
    [l \in {x \in GeomLines : GeomClassOf[x] = "row" /\ AtomRowParses(Split(x))} |->
        LET t == Split(l)
        IN  [atomic_number |-> ParseInt(t[2]),
             coordinates   |-> <<ParseFloat(t[4]), ParseFloat(t[5]), ParseFloat(t[6])>>]]

\* the j-th smallest element of a set of line numbers
Nth(S, j) == CHOOSE k \in S : Cardinality({m \in S : m <= k}) = j

\* the marker that opens the block line r closes, or 0
OpenerOf(r) ==
    LET edges == {s \in 1..(r - 1) : GeomClassOf[content[s]] \in {"marker", "terminator"}}
        last  == IF edges = {} THEN 0 ELSE CHOOSE s \in edges : \A t \in edges : t <= s
    IN  IF last # 0 /\ GeomClassOf[content[last]] = "marker" THEN last ELSE 0

RowsBetween(s, r) == {k \in (s + 1)..(r - 1) : GeomClassOf[content[k]] = "row"}

AtomsOf(rows) == [j \in 1..Cardinality(rows) |-> AtomOf[content[Nth(rows, j)]]]

\* the terminators among the first n lines that close a block with at least one row
ClosedBlocks(n) ==
    {r \in 1..n : /\ GeomClassOf[content[r]] = "terminator"
                   /\ OpenerOf(r) # 0
                   /\ RowsBetween(OpenerOf(r), r) # {}}

SnapshotsOf(n) ==
    LET closed == ClosedBlocks(n)
    IN  [j \in 1..Cardinality(closed) |->
            AtomsOf(RowsBetween(OpenerOf(Nth(closed, j)), Nth(closed, j)))]

LastMarker ==
    LET ms == {s \in 1..Len(content) : GeomClassOf[content[s]] = "marker"}
    IN  IF ms = {} THEN 0 ELSE CHOOSE s \in ms : \A t \in ms : t <= s

\* C1: at every point of the geometry pass, geometries holds exactly one snapshot
\* for each block (marker, separators and headers, K >= 1 atom rows, terminator)
\* of the lines read, in file order, and the i-th atom of a snapshot is
\* {token[1], tokens[3..5]} of the block's i-th atom row; nothing else is in it.
C1_WellFormedBlocks ==
    pc \in {"geometries", "done", "error"} => data.geometries = SnapshotsOf(Len(content))

C1_Witness ==
    /\ pc = "done"
    /\ Len(data.geometries) = 2
    /\ data.geometries[1] # data.geometries[2]

\* C2: when the end of input is reached inside a block, the atoms accumulated
\* for that block are in no snapshot: geometries holds the snapshots of the
\* blocks terminated before the last marker and nothing more, and no error is raised.
C2_UnterminatedBlockDropped ==
    (pc = "done" /\ reading_geom) =>
        /\ raised = "none"
        /\ current_geom = AtomsOf(RowsBetween(LastMarker, Len(content) + 1))
        /\ data.geometries = SnapshotsOf(LastMarker - 1)

C2_Witness ==
    /\ pc = "done"
    /\ reading_geom
    /\ Len(current_geom) = 2
    /\ Len(data.geometries) = 1

\* C6 as claimed: every atom record of every snapshot has an integer atomic
\* number >= 1 and exactly three coordinates.
C6_AtomicNumberPositive ==
    \A j \in 1..Len(data.geometries) : \A a \in 1..Len(data.geometries[j]) :
        /\ data.geometries[j][a].atomic_number \in Int
        /\ data.geometries[j][a].atomic_number >= 1
        /\ Len(data.geometries[j][a].coordinates) = 3

\* C6 as amended: every atom record of every snapshot has an integer atomic
\* number (int(token[1]), never checked against 1) and exactly three coordinates,
\* each a parsed float.
C6_AtomRecordShape ==
    \A j \in 1..Len(data.geometries) : \A a \in 1..Len(data.geometries[j]) :
        /\ DOMAIN data.geometries[j][a] = {"atomic_number", "coordinates"}
        /\ data.geometries[j][a].atomic_number \in Int
        /\ Len(data.geometries[j][a].coordinates) = 3
        /\ \A c \in 1..3 : /\ data.geometries[j][a].coordinates[c].m \in Int
                            /\ data.geometries[j][a].coordinates[c].e \in Nat

C6_Witness ==
    /\ pc = "done"
    /\ \E j \in 1..Len(data.geometries) : \E a \in 1..Len(data.geometries[j]) :
          data.geometries[j][a].atomic_number < 1

\* C7: every snapshot held in geometries has at least one atom record; a
\* terminated block with no atom row appends nothing.
C7_NoEmptySnapshot ==
    \A j \in 1..Len(data.geometries) : Len(data.geometries[j]) >= 1

C7_Witness ==
    /\ pc = "done"
    /\ Len(data.geometries) = 1
    /\ \E r \in 1..Len(content) :
          /\ GeomClassOf[content[r]] = "terminator"
          /\ OpenerOf(r) # 0
          /\ RowsBetween(OpenerOf(r), r) = {}

\* the line a step of a pass has just taken
LineTaken == content'[Len(content')]

\* a step of the geometry pass that takes a line and goes on
GeomTakes == pc = "geometries" /\ pc' = pc /\ Len(content') = Len(content) + 1

\* what the terminator does: the block is left, and the atoms gathered, if any,
\* are appended once
BlockEnds ==
    /\ ~reading_geom'
    /\ data'.geometries = IF current_geom # <<>>
                          THEN Append(data.geometries, current_geom)
                          ELSE data.geometries

\* outside a block nothing but a marker is looked at
OutsideIgnores ==
    (GeomTakes /\ ~reading_geom /\ ~Contains(LineTaken, STANDARD_ORIENTATION))
        => (data' = data /\ ~reading_geom')

\* C15 as claimed: inside a block, every line that contains "Rotational
\* constants" ends the block and appends the atoms gathered, if any, once; rows
\* after it and before the next marker are not recorded.
C15_EveryTerminatorEndsBlock ==
    [][/\ (GeomTakes /\ reading_geom /\ Contains(LineTaken, ROTATIONAL_CONSTANTS))
            => BlockEnds
       /\ OutsideIgnores]_vars

\* C15: inside a block, every line that contains "Rotational constants" and
\* neither "Standard orientation" nor a run of twenty dashes (the two tests the
\* loop makes first) ends the block and appends the atoms gathered, if any, once;
\* rows after it and before the next marker are not recorded.
C15_TerminatorEndsBlock ==
    [][/\ (/\ GeomTakes
            /\ reading_geom
            /\ Contains(LineTaken, ROTATIONAL_CONSTANTS)
            /\ ~Contains(LineTaken, STANDARD_ORIENTATION)
            /\ ~Contains(LineTaken, DASHES))
            => BlockEnds
       /\ OutsideIgnores]_vars

C15_Witness ==
    /\ content = <<SO_LINE, ROW_O, ROT_DASHED, ROT_LINE, ROW_GHOST>>
    /\ ~reading_geom
    /\ Len(data.geometries) = 1
    /\ Len(data.geometries[1]) = 1

\* C16: a line that contains "Standard orientation", met inside or outside a
\* block, leaves geometries as it is and starts an empty accumulation inside a
\* block; so inside a block the atoms gathered are those of the rows after the
\* last marker, and the rows of a block cut short by a second marker reach no
\* snapshot.
C16_MarkerRestartsBlock ==
    /\ [][(GeomTakes /\ Contains(LineTaken, STANDARD_ORIENTATION))
            => (current_geom' = <<>> /\ reading_geom' /\ data' = data)]_vars
    /\ []((pc = "geometries" /\ reading_geom)
            => current_geom = AtomsOf(RowsBetween(LastMarker, Len(content) + 1)))

C16_Witness ==
    /\ content = <<SO_LINE, ROW_O, SO_LINE, ROW_GHOST, ROT_LINE>>
    /\ data.geometries = << <<AtomOf[ROW_GHOST]>> >>

-----------------------------------------------------------------------------
(* _extract_frequencies *)

HARMONIC_FREQUENCIES == <<"Harmonic", " ", "frequencies">>
FREQUENCIES_DASHES   == <<"Frequencies", " ", "--">>

HARM_LINE  == <<" ", "Harmonic", " ", "frequencies", " ", "(cm**-1)", "\n">>
\*  Frequencies --  -50.12  300.45
FREQ_A     == <<" ", "Frequencies", " ", "--", " ", " ", "-", "5", "0", ".", "1", "2",
                " ", " ", "3", "0", "0", ".", "4", "5", "\n">>
\*  Frequencies --  1600
FREQ_B     == <<" ", "Frequencies", " ", "--", " ", " ", "1", "6", "0", "0", "\n">>
\*  Frequencies --  -50.12-300.45     (two columns run together)
FREQ_FUSED == <<" ", "Frequencies", " ", "--", " ", " ", "-", "5", "0", ".", "1", "2",
                "-", "3", "0", "0", ".", "4", "5", "\n">>
\*  Red. masses --  1.08
MASS_LINE  == <<" ", "Red.", " ", "masses", " ", "--", " ", " ", "1", ".", "0", "8", "\n">>

FreqLines == {HARM_LINE, FREQ_A, FREQ_B, FREQ_FUSED, MASS_LINE}

\* s.split("--")[1]: what lies between the first "--" and the next one, or the end
AfterDashes(s) ==
    LET at    == {k \in 1..Len(s) : s[k] = "--"}
        first == CHOOSE k \in at : \A m \in at : k <= m
        later == {k \in at : k > first}
        next  == IF later = {} THEN Len(s) + 1
                 ELSE CHOOSE k \in later : \A m \in later : k <= m
    IN  SubSeq(s, first + 1, next - 1)

\* [float(x) for x in toks]
Floats(toks) == [k \in 1..Len(toks) |-> ParseFloat(toks[k])]

AllFloats(toks) == \A k \in 1..Len(toks) : FloatLiteral(toks[k])

\* FreqStep with line 174 (if current_profile is not None:) left out
FreqStepClosesAtFirstHeader(cur, profiles, line) ==
    LET same == [current_profile |-> cur, frequency_profiles |-> profiles,
                 raised |-> "none"]
    IN  IF Contains(line, HARMONIC_FREQUENCIES)
        THEN [same EXCEPT !.current_profile = Open(<<>>),
                          !.frequency_profiles = Append(profiles, cur.values)]
        ELSE IF Contains(line, FREQUENCIES_DASHES) /\ cur # None
        THEN LET toks == Split(AfterDashes(line))
             IN  IF AllFloats(toks)
                 THEN [same EXCEPT !.current_profile = Open(cur.values \o Floats(toks))]
                 ELSE [same EXCEPT !.raised = "ValueError"]
        ELSE same

\* one iteration of the loop of lines 172-179
FreqStep(cur, profiles, line) ==
    LET same == [current_profile |-> cur, frequency_profiles |-> profiles,
                 raised |-> "none"]
    IN  IF Contains(line, HARMONIC_FREQUENCIES)
        THEN [same EXCEPT !.current_profile = Open(<<>>),
                          !.frequency_profiles =
                              IF cur # None THEN Append(profiles, cur.values)
                              ELSE profiles]
        ELSE IF Contains(line, FREQUENCIES_DASHES) /\ cur # None
        THEN LET toks == Split(AfterDashes(line))
             IN  IF AllFloats(toks)
                 THEN [same EXCEPT !.current_profile = Open(cur.values \o Floats(toks))]
                 ELSE [same EXCEPT !.raised = "ValueError"]
        ELSE same

\* FreqFlush with lines 181-182 left out
FreqFlushMissing(cur, profiles) == profiles

\* lines 181-182: the flush at the end of input
FreqFlush(cur, profiles) ==
    IF cur # None THEN Append(profiles, cur.values) ELSE profiles

InitFreq == ScanStart("frequencies") /\ BatchIdle

FreqLine ==
    /\ pc = "frequencies"
    /\ Len(content) < MaxFreqLines
    /\ \E line \in FreqLines :
         LET r == FreqStep(current_profile, data.frequency_profiles, line)
         IN  /\ r.raised = "none"
             /\ content' = Append(content, line)
             /\ current_profile' = r.current_profile
             /\ data' = [data EXCEPT !.frequency_profiles = r.frequency_profiles]
    /\ UNCHANGED <<pc, reading_geom, current_geom, geom_shared, raised, passes_run>>
    /\ UNCHANGED batchVars

FreqRaise ==
    /\ pc = "frequencies"
    /\ Len(content) < MaxFreqLines
    /\ \E line \in FreqLines :
         LET r == FreqStep(current_profile, data.frequency_profiles, line)
         IN  /\ r.raised # "none"
             /\ content' = Append(content, line)
             /\ raised' = r.raised
    /\ pc' = "error"
    /\ UNCHANGED <<data, reading_geom, current_geom, geom_shared,
                   current_profile, passes_run>>
    /\ UNCHANGED batchVars

FreqEnd ==
    /\ pc = "frequencies"
    /\ pc' = "done"
    /\ data' = [data EXCEPT !.frequency_profiles = FreqFlush(current_profile, @)]
    /\ passes_run' = Append(passes_run, "frequencies")
    /\ UNCHANGED <<content, reading_geom, current_geom, geom_shared,
                   current_profile, raised>>
    /\ UNCHANGED batchVars

NextFreq == FreqLine \/ FreqRaise \/ FreqEnd

SpecFreq == InitFreq /\ [][NextFreq]_vars

-----------------------------------------------------------------------------
(* The profiles of a line sequence, read off the lines themselves *)

IsHeader(l) == Contains(l, HARMONIC_FREQUENCIES)

IsFrequencyLine(l) == ~IsHeader(l) /\ Contains(l, FREQUENCIES_DASHES)

Headers == {k \in 1..Len(content) : IsHeader(content[k])}

\* the values of the "Frequencies --" lines among lines lo..hi, in order
RECURSIVE ValuesBetween(_, _)
ValuesBetween(lo, hi) ==
    IF lo > hi THEN <<>>
    ELSE (IF IsFrequencyLine(content[lo])
          THEN Floats(Split(AfterDashes(content[lo]))) ELSE <<>>)
         \o ValuesBetween(lo + 1, hi)

\* the line of the (k+1)-th header, or the end of input
NextHeader(k) ==
    IF k < Cardinality(Headers) THEN Nth(Headers, k + 1) ELSE Len(content) + 1

\* C3: after the frequency pass, frequency_profiles has one profile per
\* "Harmonic frequencies" line, and the k-th is the in-order concatenation of the
\* values of the "Frequencies --" lines between the k-th header and the next
\* header or the end of input (empty when there is none).
C3_ProfilesPerHeader ==
    pc = "done" =>
        /\ Len(data.frequency_profiles) = Cardinality(Headers)
        /\ \A k \in 1..Cardinality(Headers) :
              data.frequency_profiles[k] =
                  ValuesBetween(Nth(Headers, k) + 1, NextHeader(k) - 1)

C3_Witness ==
    /\ pc = "done"
    /\ Len(data.frequency_profiles) = 3
    /\ Len(data.frequency_profiles[1]) = 3
    /\ data.frequency_profiles[3] = <<>>

\* C17: frequency_profiles grows, by one profile, only on a header line that
\* finds a profile open or at the end of input with a profile open; so during
\* the pass, after h >= 1 headers, h - 1 profiles are closed, and before the
\* first header nothing is closed and no profile is open, whatever
\* "Frequencies --" lines have been read.
C17_ClosingOrder ==
    /\ [][Len(data'.frequency_profiles) # Len(data.frequency_profiles) =>
            /\ Len(data'.frequency_profiles) = Len(data.frequency_profiles) + 1
            /\ pc = "frequencies"
            /\ current_profile # None
            /\ \/ pc' = "done" /\ content' = content
               \/ pc' = pc /\ Len(content') = Len(content) + 1 /\ IsHeader(LineTaken)]_vars
    /\ [](pc = "frequencies" =>
            /\ Headers # {} => Len(data.frequency_profiles) = Cardinality(Headers) - 1
            /\ Headers = {} => (data.frequency_profiles = <<>> /\ current_profile = None))

C17_Witness ==
    /\ pc = "frequencies"
    /\ content = <<FREQ_A, HARM_LINE, FREQ_A, HARM_LINE>>
    /\ data.frequency_profiles = << Floats(Split(AfterDashes(FREQ_A))) >>
    /\ current_profile = Open(<<>>)

-----------------------------------------------------------------------------
(* _extract_energies *)

SCF_DONE       == <<"SCF", " ", "Done">>
SCF_DONE_COLON == <<"SCF", " ", "Done", ":">>

\*  SCF Done:  E(RB3LYP) =  -76.12  A.U.
SCF_A    == <<" ", "SCF", " ", "Done", ":", " ", " ", "E(RB3LYP)", " ", "=", " ", " ",
              "-", "7", "6", ".", "1", "2", " ", " ", "A.U.", "\n">>
\*  SCF Done:  E(UHF) = -75.5  S**2 = 0.75
SCF_B    == <<" ", "SCF", " ", "Done", ":", " ", " ", "E(UHF)", " ", "=", " ",
              "-", "7", "5", ".", "5", " ", " ", "S**2", " ", "=", " ",
              "0", ".", "7", "5", "\n">>
\*  SCF Done:  E(RHF) =  -76  A.U.        (no decimal point)
SCF_INT  == <<" ", "SCF", " ", "Done", ":", " ", " ", "E(RHF)", " ", "=", " ", " ",
              "-", "7", "6", " ", " ", "A.U.", "\n">>
\*  Energy = -1.5
ENERGY_LINE == <<" ", "Energy", " ", "=", " ", "-", "1", ".", "5", "\n">>

EnergyLines == {SCF_A, SCF_B, SCF_INT, ENERGY_LINE}

\* the first position from p on that holds no whitespace (\s*)
SkipSpace(s, p) ==
    LET rest == {k \in p..Len(s) : s[k] \notin Whitespace}
    IN  IF rest = {} THEN Len(s) + 1 ELSE CHOOSE k \in rest : \A m \in rest : k <= m

\* the last position of the run of digits that starts at p (\d+), p - 1 if none
DigitRunEnd(s, p) ==
    CHOOSE e \in (p - 1)..Len(s) :
        /\ \A m \in p..e : s[m] \in Digits
        /\ (e = Len(s) \/ s[e + 1] \notin Digits)

\* the last position of a match of -?\d+\.\d+ that starts at p, 0 if none
NumberEnd(s, p) ==
    LET q  == IF p <= Len(s) /\ s[p] = "-" THEN p + 1 ELSE p
        e1 == DigitRunEnd(s, q)
    IN  IF e1 >= q /\ e1 + 1 <= Len(s) /\ s[e1 + 1] = "." /\ DigitRunEnd(s, e1 + 2) >= e1 + 2
        THEN DigitRunEnd(s, e1 + 2)
        ELSE 0

\* re.search(r"SCF Done:.*=\s*(-?\d+\.\d+)", s): the leftmost "SCF Done:" that
\* has a match, the last "=" after it on the line that a number follows
ScfSearch(s) ==
    LET Equals(i) == {j \in (i + 4)..Len(s) :
                        /\ s[j] = "="
                        /\ \A m \in (i + 4)..(j - 1) : s[m] # "\n"
                        /\ NumberEnd(s, SkipSpace(s, j + 1)) # 0}
        starts == {i \in 1..(Len(s) - 3) :
                      SubSeq(s, i, i + 3) = SCF_DONE_COLON /\ Equals(i) # {}}
    IN  IF starts = {} THEN [matched |-> FALSE, group |-> <<>>]
        ELSE LET i == CHOOSE k \in starts : \A m \in starts : k <= m
                 j == CHOOSE k \in Equals(i) : \A m \in Equals(i) : m <= k
                 p == SkipSpace(s, j + 1)
             IN  [matched |-> TRUE, group |-> SubSeq(s, p, NumberEnd(s, p))]

\* EnergyStep that keeps a value only once
EnergyStepDeduplicates(energies, line) ==
    IF Contains(line, SCF_DONE) /\ ScfSearch(line).matched
       /\ \A k \in 1..Len(energies) : energies[k] # ParseFloat(ScfSearch(line).group)
    THEN Append(energies, ParseFloat(ScfSearch(line).group))
    ELSE energies

\* one iteration of the loop of lines 101-105
EnergyStep(energies, line) ==
    IF Contains(line, SCF_DONE)
    THEN LET match == ScfSearch(line)
         IN  IF match.matched THEN Append(energies, ParseFloat(match.group))
             ELSE energies
    ELSE energies

InitEnergy == ScanStart("energies") /\ BatchIdle

EnergyLine ==
    /\ pc = "energies"
    /\ Len(content) < MaxEnergyLines
    /\ \E line \in EnergyLines :
         /\ content' = Append(content, line)
         /\ data' = [data EXCEPT !.energies = EnergyStep(@, line)]
    /\ UNCHANGED <<pc, reading_geom, current_geom, geom_shared, current_profile,
                   raised, passes_run>>
    /\ UNCHANGED batchVars

EnergyEnd ==
    /\ pc = "energies"
    /\ pc' = "done"
    /\ passes_run' = Append(passes_run, "energies")
    /\ UNCHANGED <<content, data, reading_geom, current_geom, geom_shared,
                   current_profile, raised>>
    /\ UNCHANGED batchVars

NextEnergy == EnergyLine \/ EnergyEnd

SpecEnergy == InitEnergy /\ [][NextEnergy]_vars

\* the lines that contain "SCF Done" and match the pattern
ScfLines ==
    {k \in 1..Len(content) :
        Contains(content[k], SCF_DONE) /\ ScfSearch(content[k]).matched}

\* C5: energies is, in file order and without deduplication, the values captured
\* from exactly the lines that contain "SCF Done" and match the pattern; N such
\* lines give N values; a line that contains "SCF Done" and fails the pattern
\* appends nothing and raises nothing.
C5_EnergiesInFileOrder ==
    pc \in {"energies", "done"} =>
        /\ raised = "none"
        /\ Len(data.energies) = Cardinality(ScfLines)
        /\ \A j \in 1..Cardinality(ScfLines) :
              data.energies[j] = ParseFloat(ScfSearch(content[Nth(ScfLines, j)]).group)

C5_Witness ==
    /\ pc = "done"
    /\ Len(data.energies) = 3
    /\ data.energies[1] = data.energies[2]
    /\ data.energies[3] # data.energies[2]
    /\ \E k \in 1..Len(content) : content[k] = SCF_INT

-----------------------------------------------------------------------------
(* _extract_calculation_info *)

ROUTE == <<"Route">>

ROUTE_LINE == <<" ", "Route", " ", "section", ":", "\n">>
\*  # opt  freq
TEXT_A     == <<" ", "#", " ", "opt", " ", " ", "freq", " ", "\n">>
TEXT_B     == <<"b3lyp/6-31g(d)", "\n">>
BLANK_LINE == <<" ", "\n">>

InfoLines == {ROUTE_LINE, TEXT_A, TEXT_B, BLANK_LINE}

\* ' '.join(parts)
RECURSIVE Join(_)
Join(parts) ==
    IF parts = <<>> THEN <<>>
    ELSE IF Len(parts) = 1 THEN parts[1]
    ELSE parts[1] \o <<" ">> \o Join(Tail(parts))

\* d[key] = value
SetKey(d, key, value) ==
    [k \in DOMAIN d \cup {key} |-> IF k = key THEN value ELSE d[k]]

\* lines 79-80: the first line from i on that contains "Route", 0 if none
RECURSIVE FirstRoute(_, _)
FirstRoute(lines, i) ==
    IF i > Len(lines) THEN 0
    ELSE IF Contains(lines[i], ROUTE) THEN i
    ELSE FirstRoute(lines, i + 1)

\* with the break of line 87 left out, the last marker is the one that counts
RECURSIVE LastRoute(_, _)
LastRoute(lines, i) ==
    IF i > Len(lines) THEN 0
    ELSE IF LastRoute(lines, i + 1) # 0 THEN LastRoute(lines, i + 1)
    ELSE IF Contains(lines[i], ROUTE) THEN i
    ELSE 0

\* lines 83-85: the stripped lines from j up to the first blank one
RECURSIVE RouteSection(_, _)
RouteSection(lines, j) ==
    IF j <= Len(lines) /\ Strip(lines[j]) # <<>>
    THEN <<Strip(lines[j])>> \o RouteSection(lines, j + 1)
    ELSE <<>>

\* ExtractCalculationInfo without the break of line 87
ExtractCalculationInfoNoBreak(d, lines) ==
    LET i == LastRoute(lines, 1)
    IN  IF i = 0 THEN d
        ELSE [d EXCEPT !.calculation_info =
                           SetKey(@, "route", Join(RouteSection(lines, i + 1)))]

ExtractCalculationInfo(d, lines) ==
    LET i == FirstRoute(lines, 1)
    IN  IF i = 0 THEN d
        ELSE [d EXCEPT !.calculation_info =
                           SetKey(@, "route", Join(RouteSection(lines, i + 1)))]

SeqsUpTo(S, n) == UNION {[1..k -> S] : k \in 0..n}

InitInfo ==
    /\ content \in SeqsUpTo(InfoLines, MaxInfoLines)
    /\ data = EmptyRecord
    /\ pc = "calculation_info"
    /\ reading_geom = FALSE
    /\ current_geom = <<>>
    /\ geom_shared = FALSE
    /\ current_profile = None
    /\ raised = "none"
    /\ passes_run = <<>>
    /\ BatchIdle

InfoPass ==
    /\ pc = "calculation_info"
    /\ data' = ExtractCalculationInfo(data, content)
    /\ pc' = "done"
    /\ passes_run' = Append(passes_run, "calculation_info")
    /\ UNCHANGED <<content, reading_geom, current_geom, geom_shared,
                   current_profile, raised>>
    /\ UNCHANGED batchVars

NextInfo == InfoPass

SpecInfo == InitInfo /\ [][NextInfo]_vars

RouteMarkers == {k \in 1..Len(content) : Contains(content[k], ROUTE)}

\* the lines that follow marker f up to the first blank line or the end of input
RouteBody(f) ==
    LET blanks == {j \in (f + 1)..Len(content) : Strip(content[j]) = <<>>}
        stop   == IF blanks = {} THEN Len(content) + 1
                  ELSE CHOOSE j \in blanks : \A m \in blanks : j <= m
    IN  [j \in 1..(stop - f - 1) |-> Strip(content[f + j])]

\* C8: after the pass calculation_info has a route key exactly when some line
\* contains "Route"; route is then the single-space join of the trimmed lines
\* that follow the FIRST marker up to the first blank line or the end of input,
\* whatever later markers there are; no marker, no key and no error.
C8_RouteFromFirstMarker ==
    pc = "done" =>
        /\ raised = "none"
        /\ ("route" \in DOMAIN data.calculation_info) <=> (RouteMarkers # {})
        /\ RouteMarkers # {} =>
              LET first == CHOOSE k \in RouteMarkers : \A m \in RouteMarkers : k <= m
              IN  data.calculation_info["route"] = Join(RouteBody(first))

C8_Witness ==
    /\ pc = "done"
    /\ Cardinality(RouteMarkers) = 2
    /\ content[Len(content)] = TEXT_B
    /\ data.calculation_info["route"] = <<"#", " ", "opt", " ", " ", "freq">>

-----------------------------------------------------------------------------
(* _extract_electronic_structure *)

ELECTRONIC_STATE == <<"electronic", " ", "state">>
ALPHA_OCC        == <<"Alpha", " ", " ", "occ.", " ", "eigenvalues">>
ALPHA_VIRT       == <<"Alpha", " ", "virt.", " ", "eigenvalues">>

\*  The electronic state is 1-A1.
STATE_LINE    == <<" ", "The", " ", "electronic", " ", "state", " ", "is", " ",
                   "1-A1.", "\n">>
\*  The Electronic State is 2-B2.
STATE_CAPS    == <<" ", "The", " ", "Electronic", " ", "State", " ", "is", " ",
                   "2-B2.", "\n">>
\*  Alpha  occ. eigenvalues --  -10.1  -0.5
OCC_LINE      == <<" ", "Alpha", " ", " ", "occ.", " ", "eigenvalues", " ", "--", " ", " ",
                   "-", "1", "0", ".", "1", " ", " ", "-", "0", ".", "5", "\n">>
\*  Alpha occ. eigenvalues --  -0.3          (one space after Alpha)
OCC_ONE_SPACE == <<" ", "Alpha", " ", "occ.", " ", "eigenvalues", " ", "--", " ", " ",
                   "-", "0", ".", "3", "\n">>
\*  Alpha  occ. eigenvalues -- -101.5-10.1   (two columns run together)
OCC_FUSED     == <<" ", "Alpha", " ", " ", "occ.", " ", "eigenvalues", " ", "--", " ",
                   "-", "1", "0", "1", ".", "5", "-", "1", "0", ".", "1", "\n">>
\*  Alpha virt. eigenvalues --  0.25  1.5
VIRT_LINE     == <<" ", "Alpha", " ", "virt.", " ", "eigenvalues", " ", "--", " ", " ",
                   "0", ".", "2", "5", " ", " ", "1", ".", "5", "\n">>

\*  Alpha  occ. eigenvalues --  -0.7
OCC_B         == <<" ", "Alpha", " ", " ", "occ.", " ", "eigenvalues", " ", "--", " ", " ",
                   "-", "0", ".", "7", "\n">>
\*  Alpha  virt. eigenvalues --  0.9         (two spaces after Alpha)
VIRT_TWO_SPACES == <<" ", "Alpha", " ", " ", "virt.", " ", "eigenvalues", " ", "--", " ",
                     " ", "0", ".", "9", "\n">>

ElecLines ==
    {STATE_LINE, STATE_CAPS, OCC_LINE, OCC_B, OCC_ONE_SPACE, OCC_FUSED, VIRT_LINE,
     VIRT_TWO_SPACES}

\* s.lower(), on the symbols that lower-casing can turn into a word looked for
LowerSym(c) ==
    IF c \in {"Electronic", "ELECTRONIC"} THEN "electronic"
    ELSE IF c \in {"State", "STATE"} THEN "state"
    ELSE IF c = "The" THEN "the"
    ELSE c

Lower(s) == [k \in 1..Len(s) |-> LowerSym(s[k])]

\* \s+ between positions x and y: at least one symbol, all of them whitespace
Gap(s, x, y) == y > x + 1 /\ \A m \in (x + 1)..(y - 1) : s[m] \in Whitespace

\* where the "--" of a match of Alpha\s+<kind>\s+eigenvalues\s+--\s+ that starts
\* at position i stands, as a set: empty when there is no match at i
DashesOf(s, i, kind) ==
    {d \in 1..(Len(s) - 1) :
        /\ s[i] = "Alpha"
        /\ s[d] = "--"
        /\ s[d + 1] \in Whitespace
        /\ \E k \in (i + 1)..d : \E e \in (k + 1)..d :
              /\ s[k] = kind
              /\ s[e] = "eigenvalues"
              /\ Gap(s, i, k)
              /\ Gap(s, k, e)
              /\ Gap(s, e, d)}

\* re.search(r"Alpha\s+<kind>\s+eigenvalues\s+--\s+(.*)", s): the group runs from
\* the end of the whitespace after "--" to the end of the line
EigenSearch(s, kind) ==
    LET starts == {i \in 1..Len(s) : DashesOf(s, i, kind) # {}}
    IN  IF starts = {} THEN [matched |-> FALSE, group |-> <<>>]
        ELSE LET i    == CHOOSE k \in starts : \A m \in starts : k <= m
                 d    == CHOOSE k \in DashesOf(s, i, kind) : TRUE
                 p    == SkipSpace(s, d + 1)
                 ends == {k \in p..Len(s) : s[k] = "\n"}
                 q    == IF ends = {} THEN Len(s) + 1
                         ELSE CHOOSE k \in ends : \A m \in ends : k <= m
             IN  [matched |-> TRUE, group |-> SubSeq(s, p, q - 1)]

\* lines 212-216 and 217-221: one of the two eigenvalue checks on a line
EigenCheck(r, line, literal, kind, key) ==
    IF r.raised # "none" \/ ~Contains(line, literal) THEN r
    ELSE LET match == EigenSearch(line, kind)
         IN  IF ~match.matched THEN r
             ELSE IF ~AllFloats(Split(match.group)) THEN [r EXCEPT !.raised = "ValueError"]
             ELSE [r EXCEPT !.electronic_structure =
                                SetKey(@, key, Floats(Split(match.group)))]

\* ElecStep with a key that is set kept as it is
ElecStepFirstWins(es, line) ==
    LET r0 == [electronic_structure |->
                   IF Contains(Lower(line), ELECTRONIC_STATE)
                   THEN SetKey(es, "state", Strip(line)) ELSE es,
               raised |-> "none"]
        r1 == EigenCheck(r0, line, ALPHA_OCC, "occ.", "occupied_eigenvalues")
        r2 == EigenCheck(r1, line, ALPHA_VIRT, "virt.", "virtual_eigenvalues")
    IN  [r2 EXCEPT !.electronic_structure =
            [k \in DOMAIN r2.electronic_structure |->
                IF k \in DOMAIN es THEN es[k] ELSE r2.electronic_structure[k]]]

\* one iteration of the loop of lines 209-221
ElecStep(es, line) ==
    LET r0 == [electronic_structure |->
                   IF Contains(Lower(line), ELECTRONIC_STATE)
                   THEN SetKey(es, "state", Strip(line)) ELSE es,
               raised |-> "none"]
        r1 == EigenCheck(r0, line, ALPHA_OCC, "occ.", "occupied_eigenvalues")
    IN  EigenCheck(r1, line, ALPHA_VIRT, "virt.", "virtual_eigenvalues")

InitElec == ScanStart("electronic_structure") /\ BatchIdle

ElecLine ==
    /\ pc = "electronic_structure"
    /\ Len(content) < MaxElecLines
    /\ \E line \in ElecLines :
         LET r == ElecStep(data.electronic_structure, line)
         IN  /\ r.raised = "none"
             /\ content' = Append(content, line)
             /\ data' = [data EXCEPT !.electronic_structure = r.electronic_structure]
    /\ UNCHANGED <<pc, reading_geom, current_geom, geom_shared, current_profile,
                   raised, passes_run>>
    /\ UNCHANGED batchVars

ElecRaise ==
    /\ pc = "electronic_structure"
    /\ Len(content) < MaxElecLines
    /\ \E line \in ElecLines :
         LET r == ElecStep(data.electronic_structure, line)
         IN  /\ r.raised # "none"
             /\ content' = Append(content, line)
             /\ data' = [data EXCEPT !.electronic_structure = r.electronic_structure]
             /\ raised' = r.raised
    /\ pc' = "error"
    /\ UNCHANGED <<reading_geom, current_geom, geom_shared, current_profile, passes_run>>
    /\ UNCHANGED batchVars

ElecEnd ==
    /\ pc = "electronic_structure"
    /\ pc' = "done"
    /\ passes_run' = Append(passes_run, "electronic_structure")
    /\ UNCHANGED <<content, data, reading_geom, current_geom, geom_shared,
                   current_profile, raised>>
    /\ UNCHANGED batchVars

NextElec == ElecLine \/ ElecRaise \/ ElecEnd

SpecElec == InitElec /\ [][NextElec]_vars

\* the lines read that hold the literal and match the pattern of one kind
EigenLines(literal, kind) ==
    {k \in 1..Len(content) :
        Contains(content[k], literal) /\ EigenSearch(content[k], kind).matched}

\* the lines read that hold "electronic state", in any case
StateLines == {k \in 1..Len(content) : Contains(Lower(content[k]), ELECTRONIC_STATE)}

Last(S) == CHOOSE k \in S : \A m \in S : m <= k

\* key is absent when no line of S qualifies, else holds what the last one gives
KeyFromLast(key, S, Value(_)) ==
    IF S = {} THEN key \notin DOMAIN data.electronic_structure
    ELSE /\ key \in DOMAIN data.electronic_structure
         /\ data.electronic_structure[key] = Value(content[Last(S)])

\* C11: as long as no line has raised, each key of electronic_structure holds
\* what the last qualifying line read gives: occupied_eigenvalues the values of
\* the last line with the literal "Alpha  occ. eigenvalues" that matches the
\* pattern, virtual_eigenvalues those of the last line with "Alpha virt.
\* eigenvalues", state the trimmed last line with "electronic state" in any
\* case; a key is absent when no line qualifies, so a line that matches a pattern
\* without holding the literal changes nothing.
C11_LastMatchWins ==
    (pc \in {"electronic_structure", "done"} /\ raised = "none") =>
        /\ KeyFromLast("occupied_eigenvalues", EigenLines(ALPHA_OCC, "occ."),
                       LAMBDA l : Floats(Split(EigenSearch(l, "occ.").group)))
        /\ KeyFromLast("virtual_eigenvalues", EigenLines(ALPHA_VIRT, "virt."),
                       LAMBDA l : Floats(Split(EigenSearch(l, "virt.").group)))
        /\ KeyFromLast("state", StateLines, LAMBDA l : Strip(l))
        /\ DOMAIN data.electronic_structure \subseteq
              {"occupied_eigenvalues", "virtual_eigenvalues", "state"}

C11_Witness ==
    /\ pc = "done"
    /\ content = <<OCC_LINE, OCC_B, VIRT_TWO_SPACES>>
    /\ data.electronic_structure["occupied_eigenvalues"] = <<[m |-> -7, e |-> 1]>>
    /\ "virtual_eigenvalues" \notin DOMAIN data.electronic_structure

-----------------------------------------------------------------------------
(* The four line-by-line passes side by side: a scan of one of them *)

InitPasses ==
    \E pass \in {"energies", "geometries", "frequencies", "electronic_structure"} :
        ScanStart(pass) /\ BatchIdle

NextPasses == NextEnergy \/ NextGeom \/ NextFreq \/ NextElec

SpecPasses == InitPasses /\ [][NextPasses]_vars

\* s is the beginning of t
IsPrefix(s, t) == Len(s) <= Len(t) /\ SubSeq(t, 1, Len(s)) = s

\* C18: a step of a scan leaves every snapshot of geometries and every profile
\* of frequency_profiles what and where it was, the two sequences growing at the
\* end only; the list that was appended as a snapshot is not extended while
\* current_geom still names it.
C18_ClosedRecordsStable ==
    [][/\ IsPrefix(data.geometries, data'.geometries)
       /\ IsPrefix(data.frequency_profiles, data'.frequency_profiles)
       /\ geom_shared =>
             \/ current_geom' = current_geom /\ geom_shared'
             \/ current_geom' = <<>> /\ ~geom_shared']_vars

C18_Witness ==
    /\ pc = "geometries"
    /\ content = <<SO_LINE, ROW_O, ROT_LINE, ROW_GHOST, SO_LINE, ROW_GHOST>>
    /\ data.geometries = << <<AtomOf[ROW_O]>> >>
    /\ current_geom = <<AtomOf[ROW_GHOST]>>

\* a line that contains the trigger of the running pass and fails its pattern
RecognitionMiss(line) ==
    \/ /\ pc = "energies"
       /\ Contains(line, SCF_DONE)
       /\ ~ScfSearch(line).matched
    \/ /\ pc = "frequencies"
       /\ current_profile # None
       /\ ~Contains(line, HARMONIC_FREQUENCIES)
       /\ Contains(line, FREQUENCIES_DASHES)
       /\ ~AllFloats(Split(AfterDashes(line)))
    \/ /\ pc = "electronic_structure"
       /\ ~Contains(Lower(line), ELECTRONIC_STATE)
       /\ \/ /\ Contains(line, ALPHA_OCC)
             /\ ~(EigenSearch(line, "occ.").matched
                  /\ AllFloats(Split(EigenSearch(line, "occ.").group)))
          \/ /\ Contains(line, ALPHA_VIRT)
             /\ ~(EigenSearch(line, "virt.").matched
                  /\ AllFloats(Split(EigenSearch(line, "virt.").group)))
    \/ /\ pc = "geometries"
       /\ reading_geom
       /\ ~Contains(line, STANDARD_ORIENTATION)
       /\ ~Contains(line, DASHES)
       /\ ~Contains(line, ROTATIONAL_CONSTANTS)
       /\ Len(Split(line)) = 6
       /\ IsDigit(Split(line)[1])
       /\ ~(IntLiteral(Split(line)[2]) /\ \A k \in 4..6 : FloatLiteral(Split(line)[k]))

\* C4 as claimed: in every pass, a line that contains the trigger and fails the
\* numeric or structural pattern is skipped: the scan goes on without an error and
\* the record is as it was before the line.
C4_RecognitionMissSkipped ==
    [][(Len(content') = Len(content) + 1 /\ RecognitionMiss(LineTaken))
          => (pc' = pc /\ raised' = "none" /\ data' = data)]_vars

-----------------------------------------------------------------------------
(* The passes as read_file calls them: each takes the record and the lines *)
(* and gives the record back, with the exception that ended it if any.     *)

\* F applied to the one element of S
Bind(S, F(_)) == CHOOSE r \in {F(x) : x \in S} : TRUE

RECURSIVE EnergyScan(_, _, _)
EnergyScan(energies, lines, k) ==
    IF k > Len(lines) THEN energies
    ELSE Bind({EnergyStep(energies, lines[k])}, LAMBDA x : EnergyScan(x, lines, k + 1))

\* ExtractEnergies on a record made anew
ExtractEnergiesFreshRecord(d, lines) ==
    [data |-> [EmptyRecord EXCEPT !.energies = EnergyScan(d.energies, lines, 1)],
     raised |-> "none"]

ExtractEnergies(d, lines) ==
    [data |-> [d EXCEPT !.energies = EnergyScan(@, lines, 1)], raised |-> "none"]

RECURSIVE GeomScan(_, _, _)
GeomScan(st, lines, k) ==
    IF k > Len(lines) \/ st.raised # "none" THEN st
    ELSE Bind({GeomStep(st.reading_geom, st.current_geom, st.geom_shared,
                        st.geometries, lines[k])},
              LAMBDA x : GeomScan(x, lines, k + 1))

ExtractGeometries(d, lines) ==
    Bind({GeomScan([reading_geom |-> FALSE, current_geom |-> <<>>,
                    geom_shared |-> FALSE, geometries |-> d.geometries,
                    raised |-> "none"], lines, 1)},
         LAMBDA st : [data |-> [d EXCEPT !.geometries = st.geometries],
                      raised |-> st.raised])

RECURSIVE FreqScan(_, _, _)
FreqScan(st, lines, k) ==
    IF st.raised # "none" THEN st
    ELSE IF k > Len(lines)
    THEN [st EXCEPT !.frequency_profiles = FreqFlush(st.current_profile, @)]
    ELSE Bind({FreqStep(st.current_profile, st.frequency_profiles, lines[k])},
              LAMBDA x : FreqScan(x, lines, k + 1))

ExtractFrequencies(d, lines) ==
    Bind({FreqScan([current_profile |-> None,
                    frequency_profiles |-> d.frequency_profiles,
                    raised |-> "none"], lines, 1)},
         LAMBDA st : [data |-> [d EXCEPT !.frequency_profiles = st.frequency_profiles],
                      raised |-> st.raised])

RECURSIVE ElecScan(_, _, _)
ElecScan(st, lines, k) ==
    IF k > Len(lines) \/ st.raised # "none" THEN st
    ELSE Bind({ElecStep(st.electronic_structure, lines[k])},
              LAMBDA x : ElecScan(x, lines, k + 1))

ExtractElectronicStructure(d, lines) ==
    Bind({ElecScan([electronic_structure |-> d.electronic_structure,
                    raised |-> "none"], lines, 1)},
         LAMBDA st : [data |-> [d EXCEPT !.electronic_structure = st.electronic_structure],
                      raised |-> st.raised])

Passes == {"calculation_info", "energies", "geometries", "frequencies",
           "electronic_structure"}

\* lines 63-67: the order of the calls
CodeOrder == <<"calculation_info", "energies", "geometries", "frequencies",
               "electronic_structure">>

Fields == {"energies", "geometries", "frequency_profiles", "electronic_structure",
           "calculation_info"}

\* the field of the record a pass is written for
FieldOf(pass) == IF pass = "frequencies" THEN "frequency_profiles" ELSE pass

RunPass(pass, d, lines) ==
    CASE pass = "calculation_info" ->
             [data |-> ExtractCalculationInfo(d, lines), raised |-> "none"]
      [] pass = "energies"             -> ExtractEnergies(d, lines)
      [] pass = "geometries"           -> ExtractGeometries(d, lines)
      [] pass = "frequencies"          -> ExtractFrequencies(d, lines)
      [] pass = "electronic_structure" -> ExtractElectronicStructure(d, lines)

\* the calls of lines 63-67 from the k-th on; an exception ends them
RECURSIVE RunInOrder(_, _, _)
RunInOrder(r, lines, k) ==
    IF k > Len(CodeOrder) \/ r.raised # "none" THEN r
    ELSE Bind({RunPass(CodeOrder[k], r.data, lines)},
              LAMBDA x : RunInOrder(x, lines, k + 1))

\* read_file on the lines of a file that could be opened
ReadFile(d, lines) == RunInOrder([data |-> d, raised |-> "none"], lines, 1)

-----------------------------------------------------------------------------
(* Reports: for each pass a stretch of lines it has something to find in,  *)
(* or none, one after the other as a report has them.                      *)

InfoParts   == {<<>>, <<ROUTE_LINE, TEXT_A, TEXT_B, BLANK_LINE>>}
EnergyParts == {<<>>, <<SCF_A, SCF_INT, SCF_B>>}
GeomParts   == {<<>>, <<SO_LINE, DASH_LINE, ROW_O, ROW_GHOST, ROT_LINE>>,
                <<SO_LINE, ROW_BAD, ROT_LINE>>}
FreqParts   == {<<>>, <<HARM_LINE, FREQ_A, MASS_LINE, FREQ_B>>, <<HARM_LINE, FREQ_FUSED>>}
ElecParts   == {<<>>, <<STATE_LINE, OCC_LINE, VIRT_LINE>>}

Reports ==
    {a \o b \o c \o d \o e :
        a \in InfoParts, b \in EnergyParts, c \in GeomParts,
        d \in FreqParts, e \in ElecParts}

-----------------------------------------------------------------------------
(* read_file with the order of lines 63-67 left open: the five passes, each *)
(* called once, in an order the caller picks.                               *)

InitRead ==
    /\ content \in Reports
    /\ data = EmptyRecord
    /\ pc = "read_file"
    /\ reading_geom = FALSE
    /\ current_geom = <<>>
    /\ geom_shared = FALSE
    /\ current_profile = None
    /\ raised = "none"
    /\ passes_run = <<>>
    /\ BatchIdle

Returned == {passes_run[k] : k \in 1..Len(passes_run)}

CallPass ==
    /\ pc = "read_file"
    /\ \E pass \in Passes \ Returned : pc' = pass
    /\ UNCHANGED <<content, data, reading_geom, current_geom, geom_shared,
                   current_profile, raised, passes_run>>
    /\ UNCHANGED batchVars

PassReturns ==
    /\ pc \in Passes
    /\ \E r \in {RunPass(pc, data, content)} :
         /\ r.raised = "none"
         /\ data' = r.data
    /\ passes_run' = Append(passes_run, pc)
    /\ pc' = IF Len(passes_run) + 1 = Cardinality(Passes) THEN "done" ELSE "read_file"
    /\ UNCHANGED <<content, reading_geom, current_geom, geom_shared,
                   current_profile, raised>>
    /\ UNCHANGED batchVars

PassRaises ==
    /\ pc \in Passes
    /\ \E r \in {RunPass(pc, data, content)} :
         /\ r.raised # "none"
         /\ data' = r.data
         /\ raised' = r.raised
    /\ pc' = "error"
    /\ UNCHANGED <<content, reading_geom, current_geom, geom_shared,
                   current_profile, passes_run>>
    /\ UNCHANGED batchVars

NextRead == CallPass \/ PassReturns \/ PassRaises

SpecRead == InitRead /\ [][NextRead]_vars

\* C9: a pass changes no field of the record but its own, and when the five
\* passes have run over the same lines, in whatever order, the record is the one
\* read_file builds with the order of lines 63-67.
C9_PassIndependence ==
    /\ [][\A f \in Fields : data'[f] # data[f] => (pc \in Passes /\ f = FieldOf(pc))]_vars
    /\ [](pc = "done" => data = ReadFile(EmptyRecord, content).data)

C9_Witness ==
    /\ pc = "done"
    /\ passes_run[1] = "electronic_structure"
    /\ passes_run[5] = "calculation_info"
    /\ \A f \in Fields : data[f] # <<>>

-----------------------------------------------------------------------------
(* save_results.  An artifact is the file written: its path (the base name *)
(* of the report, the kind of artifact, the number of the profile) and its *)
(* rows.  A number written with a fixed count of decimals is the integer   *)
(* count of units of the last decimal.                                     *)

RECURSIVE Pow10(_)
Pow10(n) == IF n = 0 THEN 1 ELSE 10 * Pow10(n - 1)

\* f"{v:.<digits>f}"
Fixed(v, digits) ==
    IF v.e <= digits THEN v.m * Pow10(digits - v.e)
    ELSE LET unit == Pow10(v.e - digits)
             mag  == IF v.m < 0 THEN -v.m ELSE v.m
             q    == mag \div unit
             r    == mag % unit
             up   == 2 * r > unit \/ (2 * r = unit /\ q % 2 = 1)
         IN  (IF v.m < 0 THEN -1 ELSE 1) * (IF up THEN q + 1 ELSE q)

KnownExtensions == {".log", ".out", ".gaussian", ".txt"}

\* os.path.splitext(os.path.basename(filename))[0]
BaseName(name) ==
    IF Len(name) > 1 /\ name[Len(name)] \in KnownExtensions
    THEN SubSeq(name, 1, Len(name) - 1)
    ELSE name

\* lines 257-262
EnergiesArtifact(name, d) ==
    IF d.energies # <<>>
    THEN <<[path |-> <<BaseName(name), "energies", 0>>,
            rows |-> [i \in 1..Len(d.energies) |->
                         [step |-> i, energy |-> Fixed(d.energies[i], 6)]]]>>
    ELSE <<>>

\* GeometryArtifact with geometries[0] for geometries[-1]
GeometryArtifactFirstSnapshot(name, d) ==
    IF d.geometries # <<>>
    THEN LET final == d.geometries[1]
         IN  <<[path |-> <<BaseName(name), "geometry", 0>>,
                rows |-> [i \in 1..Len(final) |->
                             [atom |-> final[i].atomic_number,
                              xyz  |-> [c \in 1..3 |->
                                           Fixed(final[i].coordinates[c], 6)]]]]>>
    ELSE <<>>

\* lines 265-273
GeometryArtifact(name, d) ==
    IF d.geometries # <<>>
    THEN LET final == d.geometries[Len(d.geometries)]
         IN  <<[path |-> <<BaseName(name), "geometry", 0>>,
                rows |-> [i \in 1..Len(final) |->
                             [atom |-> final[i].atomic_number,
                              xyz  |-> [c \in 1..3 |->
                                           Fixed(final[i].coordinates[c], 6)]]]]>>
    ELSE <<>>

\* FrequencyArtifacts with a profile that has no mode left out
FrequencyArtifactsNonEmpty(name, d) ==
    LET kept == SelectSeq([n \in 1..Len(d.frequency_profiles) |-> n],
                          LAMBDA n : d.frequency_profiles[n] # <<>>)
    IN  [j \in 1..Len(kept) |->
            [path |-> <<BaseName(name), "frequencies_profile", kept[j]>>,
             rows |-> [i \in 1..Len(d.frequency_profiles[kept[j]]) |->
                          [mode |-> i,
                           freq |-> Fixed(d.frequency_profiles[kept[j]][i], 2)]]]]

\* lines 276-282
FrequencyArtifacts(name, d) ==
    [n \in 1..Len(d.frequency_profiles) |->
        [path |-> <<BaseName(name), "frequencies_profile", n>>,
         rows |-> [i \in 1..Len(d.frequency_profiles[n]) |->
                      [mode |-> i, freq |-> Fixed(d.frequency_profiles[n][i], 2)]]]]

\* lines 285-300
SummaryArtifact(name, d) ==
    <<[path |-> <<BaseName(name), "summary", 0>>,
       rows |-> (IF "route" \in DOMAIN d.calculation_info
                 THEN <<[section |-> "Route Section",
                         text |-> d.calculation_info["route"]]>>
                 ELSE <<>>)
             \o (IF d.energies # <<>>
                 THEN <<[section |-> "Final Energy",
                         energy |-> Fixed(d.energies[Len(d.energies)], 6)]>>
                 ELSE <<>>)
             \o (IF d.electronic_structure # <<>>
                 THEN <<[section |-> "Electronic Structure Information",
                         items |-> d.electronic_structure]>>
                 ELSE <<>>)]>>

\* the files save_results writes, in the order it writes them
SaveResults(name, d) ==
    EnergiesArtifact(name, d) \o GeometryArtifact(name, d)
        \o FrequencyArtifacts(name, d) \o SummaryArtifact(name, d)

-----------------------------------------------------------------------------
(* save_results on its own: an analyzer that has read a report is asked to *)
(* save.  The reports bring every field of the record empty and not, two   *)
(* snapshots that differ, two energies that differ, a profile with no mode. *)

SaveInfoParts   == {<<>>, <<ROUTE_LINE, TEXT_A, BLANK_LINE>>}
SaveEnergyParts == {<<>>, <<SCF_A>>, <<SCF_A, SCF_B>>}
SaveGeomParts   ==
    {<<>>, <<SO_LINE, DASH_LINE, ROW_O, ROT_LINE>>,
     <<SO_LINE, ROW_O, ROW_GHOST, ROT_LINE, SO_LINE, ROW_GHOST, ROT_LINE>>}
SaveFreqParts   ==
    {<<>>, <<HARM_LINE, FREQ_A>>, <<HARM_LINE, HARM_LINE, FREQ_B>>}
SaveElecParts   == {<<>>, <<STATE_LINE, OCC_LINE, VIRT_LINE>>}

SaveReports ==
    {a \o b \o c \o d \o e :
        a \in SaveInfoParts, b \in SaveEnergyParts, c \in SaveGeomParts,
        d \in SaveFreqParts, e \in SaveElecParts}

SaveNames == {<<"a", ".log">>, <<"b", ".out">>}

InitSave ==
    /\ listing \in {<<n>> : n \in SaveNames}
    /\ content \in SaveReports
    /\ data = ReadFile(EmptyRecord, content).data
    /\ pc = "save_results"
    /\ directory = <<>>
    /\ fidx = 1
    /\ bpc = "idle"
    /\ log = <<>>
    /\ artifacts = <<>>
    /\ reading_geom = FALSE
    /\ current_geom = <<>>
    /\ geom_shared = FALSE
    /\ current_profile = None
    /\ raised = "none"
    /\ passes_run = CodeOrder

\* lines 252-300 with every open() returning
SaveReturns ==
    /\ pc = "save_results"
    /\ artifacts' = SaveResults(listing[fidx], data)
    /\ pc' = "done"
    /\ UNCHANGED <<content, data, reading_geom, current_geom, geom_shared,
                   current_profile, raised, passes_run>>
    /\ UNCHANGED <<listing, directory, fidx, bpc, log>>

\* os.makedirs or one of the open() calls raises: the files written before stay
SaveRaises ==
    /\ pc = "save_results"
    /\ \E out \in {SaveResults(listing[fidx], data)} :
         \E k \in 0..(Len(out) - 1) : artifacts' = SubSeq(out, 1, k)
    /\ raised' = "OSError"
    /\ pc' = "error"
    /\ UNCHANGED <<content, data, reading_geom, current_geom, geom_shared,
                   current_profile, passes_run>>
    /\ UNCHANGED <<listing, directory, fidx, bpc, log>>

NextSave == SaveReturns \/ SaveRaises

SpecSave == InitSave /\ [][NextSave]_vars

\* the artifacts written of one kind, and with one number
Written(kind, n) ==
    {i \in 1..Len(artifacts) : artifacts[i].path[2] = kind /\ artifacts[i].path[3] = n}

\* C12: when save_results has returned there is an energies artifact exactly
\* when energies is not empty, a geometry artifact exactly when geometries is not
\* empty, one frequency artifact for each profile, numbered from 1, a profile
\* without modes included, and one summary artifact; the summary has the route
\* section exactly when calculation_info has the key route.
C12_ArtifactSet ==
    pc = "done" =>
        /\ Cardinality(Written("energies", 0)) = IF data.energies # <<>> THEN 1 ELSE 0
        /\ Cardinality(Written("geometry", 0)) = IF data.geometries # <<>> THEN 1 ELSE 0
        /\ \A n \in 1..Len(data.frequency_profiles) :
              Cardinality(Written("frequencies_profile", n)) = 1
        /\ Cardinality(Written("summary", 0)) = 1
        /\ Len(artifacts) = Cardinality(Written("energies", 0))
                              + Cardinality(Written("geometry", 0))
                              + Len(data.frequency_profiles) + 1
        /\ \A i \in Written("summary", 0) :
              (\E j \in 1..Len(artifacts[i].rows) :
                    artifacts[i].rows[j].section = "Route Section")
                 <=> "route" \in DOMAIN data.calculation_info

C12_Witness ==
    /\ pc = "done"
    /\ Len(data.frequency_profiles) = 2
    /\ data.frequency_profiles[1] = <<>>
    /\ data.energies = <<>>
    /\ data.geometries = <<>>
    /\ "route" \notin DOMAIN data.calculation_info
    /\ Len(artifacts) = 3

\* C13: the geometry artifact lists, in order, the atoms of the last snapshot
\* of geometries, each with its atomic number and its three coordinates to six
\* decimals, and the final energy of the summary is the last element of energies.
C13_FinalValues ==
    pc = "done" =>
        /\ \A i \in Written("geometry", 0) :
              LET final == data.geometries[Len(data.geometries)]
                  rows  == artifacts[i].rows
              IN  /\ Len(rows) = Len(final)
                  /\ \A k \in 1..Len(rows) :
                        /\ rows[k].atom = final[k].atomic_number
                        /\ rows[k].xyz = [c \in 1..3 |-> Fixed(final[k].coordinates[c], 6)]
        /\ \A i \in Written("summary", 0) :
              \A j \in 1..Len(artifacts[i].rows) :
                  artifacts[i].rows[j].section = "Final Energy" =>
                      artifacts[i].rows[j].energy =
                          Fixed(data.energies[Len(data.energies)], 6)

C13_Witness ==
    /\ pc = "done"
    /\ Len(data.geometries) = 2
    /\ Len(data.geometries[1]) # Len(data.geometries[2])
    /\ Len(data.energies) = 2
    /\ data.energies[1] # data.energies[2]
    /\ Written("geometry", 0) # {}

-----------------------------------------------------------------------------
(* process_gaussian_files *)

FileNames == {<<"a", ".log">>, <<"b", ".out">>, <<"a", ".gaussian">>, <<"notes", ".txt">>}

\* filename.endswith(('.log', '.out', '.gaussian'))
IsCandidate(name) == name[Len(name)] \in {".log", ".out", ".gaussian"}

GoodReport ==
    <<ROUTE_LINE, TEXT_A, BLANK_LINE, SCF_A, SCF_B, SO_LINE, DASH_LINE, ROW_O,
      ROW_GHOST, ROT_LINE, HARM_LINE, FREQ_A, STATE_LINE, OCC_LINE, VIRT_LINE>>

\* a report whose frequency section has two columns run together
FusedReport == <<SCF_A, SO_LINE, ROW_O, ROT_LINE, HARM_LINE, FREQ_FUSED, OCC_LINE>>

\* what a name of the listing can stand for: a file that cannot be opened (or
\* a directory), or a file with the lines of a report
FileStates ==
    {[readable |-> FALSE, lines |-> <<>>]}
        \cup {[readable |-> TRUE, lines |-> r] : r \in {<<>>, GoodReport, FusedReport}}

\* read_file of an analyzer that has just been made, for each content
FreshReads == [r \in {f.lines : f \in FileStates} |-> ReadFile(EmptyRecord, r)]

\* analyzer.read_file() on the lines of a file of the directory
AnalyzerRead(d, lines) ==
    IF d = EmptyRecord THEN FreshReads[lines] ELSE ReadFile(d, lines)

\* os.listdir: names, no name twice
Listings ==
    {l \in SeqsUpTo(FileNames, MaxFiles) :
        \A i \in 1..Len(l) : \A j \in 1..Len(l) : i # j => l[i] # l[j]}

InitBatch ==
    /\ listing \in Listings
    /\ directory \in [{listing[k] : k \in 1..Len(listing)} -> FileStates]
    /\ fidx = 1
    /\ bpc = "loop"
    /\ log = <<>>
    /\ artifacts = <<>>
    /\ content = <<>>
    /\ data = EmptyRecord
    /\ pc = "idle"
    /\ reading_geom = FALSE
    /\ current_geom = <<>>
    /\ geom_shared = FALSE
    /\ current_profile = None
    /\ raised = "none"
    /\ passes_run = <<>>

scanLocals == <<pc, reading_geom, current_geom, geom_shared, current_profile, passes_run>>

\* line 321: a name without one of the three extensions is passed over
BatchSkip ==
    /\ bpc = "loop"
    /\ fidx <= Len(listing)
    /\ ~IsCandidate(listing[fidx])
    /\ fidx' = fidx + 1
    /\ UNCHANGED <<content, data, raised, listing, directory, bpc, log, artifacts>>
    /\ UNCHANGED scanLocals

\* BatchAnalyzer with one record for all the analyzers
BatchAnalyzerSharedRecord ==
    /\ bpc = "loop"
    /\ fidx <= Len(listing)
    /\ IsCandidate(listing[fidx])
    /\ content' = <<>>
    /\ bpc' = "read_file"
    /\ UNCHANGED <<data, raised, listing, directory, fidx, log, artifacts>>
    /\ UNCHANGED scanLocals

\* lines 323-324: a new analyzer, with an empty record
BatchAnalyzer ==
    /\ bpc = "loop"
    /\ fidx <= Len(listing)
    /\ IsCandidate(listing[fidx])
    /\ content' = <<>>
    /\ data' = EmptyRecord
    /\ bpc' = "read_file"
    /\ UNCHANGED <<raised, listing, directory, fidx, log, artifacts>>
    /\ UNCHANGED scanLocals

\* line 325, read_file returns
BatchReadReturns ==
    /\ bpc = "read_file"
    /\ directory[listing[fidx]].readable
    /\ \E r \in {AnalyzerRead(data, directory[listing[fidx]].lines)} :
         /\ r.raised = "none"
         /\ data' = r.data
    /\ content' = directory[listing[fidx]].lines
    /\ bpc' = "save_results"
    /\ UNCHANGED <<raised, listing, directory, fidx, log, artifacts>>
    /\ UNCHANGED scanLocals

\* line 325, open() raises
BatchOpenRaises ==
    /\ bpc = "read_file"
    /\ ~directory[listing[fidx]].readable
    /\ raised' = "IOError"
    /\ bpc' = "except"
    /\ UNCHANGED <<content, data, listing, directory, fidx, log, artifacts>>
    /\ UNCHANGED scanLocals

\* BatchReadRaises with the exception of the pass kept from the caller
BatchReadRaisesUnseen ==
    /\ bpc = "read_file"
    /\ directory[listing[fidx]].readable
    /\ \E r \in {AnalyzerRead(data, directory[listing[fidx]].lines)} :
         /\ r.raised # "none"
         /\ data' = r.data
    /\ content' = directory[listing[fidx]].lines
    /\ bpc' = "save_results"
    /\ UNCHANGED <<raised, listing, directory, fidx, log, artifacts>>
    /\ UNCHANGED scanLocals

\* line 325, a pass raises
BatchReadRaises ==
    /\ bpc = "read_file"
    /\ directory[listing[fidx]].readable
    /\ \E r \in {AnalyzerRead(data, directory[listing[fidx]].lines)} :
         /\ r.raised # "none"
         /\ data' = r.data
         /\ raised' = r.raised
    /\ content' = directory[listing[fidx]].lines
    /\ bpc' = "except"
    /\ UNCHANGED <<listing, directory, fidx, log, artifacts>>
    /\ UNCHANGED scanLocals

\* lines 326-327: the artifacts are written and the success is printed
BatchSaveReturns ==
    /\ bpc = "save_results"
    /\ artifacts' = artifacts \o SaveResults(listing[fidx], data)
    /\ log' = Append(log, [text |-> "Successfully processed",
                           filename |-> listing[fidx], error |-> "none"])
    /\ fidx' = fidx + 1
    /\ bpc' = "loop"
    /\ UNCHANGED <<content, data, raised, listing, directory>>
    /\ UNCHANGED scanLocals

\* line 326, os.makedirs or one of the open() calls raises: the files written
\* before it stay
BatchSaveRaises ==
    /\ bpc = "save_results"
    /\ \E out \in {SaveResults(listing[fidx], data)} :
         \E k \in 0..(Len(out) - 1) :
            artifacts' = artifacts \o SubSeq(out, 1, k)
    /\ raised' = "OSError"
    /\ bpc' = "except"
    /\ UNCHANGED <<content, data, listing, directory, fidx, log>>
    /\ UNCHANGED scanLocals

\* BatchExcept with the exception let through: the loop is left
BatchExceptLeavesLoop ==
    /\ bpc = "except"
    /\ log' = Append(log, [text |-> "Error processing",
                           filename |-> listing[fidx], error |-> raised])
    /\ bpc' = "done"
    /\ UNCHANGED <<content, data, raised, listing, directory, fidx, artifacts>>
    /\ UNCHANGED scanLocals

\* lines 328-329: the exception is caught and printed with the file name
BatchExcept ==
    /\ bpc = "except"
    /\ log' = Append(log, [text |-> "Error processing",
                           filename |-> listing[fidx], error |-> raised])
    /\ raised' = "none"
    /\ fidx' = fidx + 1
    /\ bpc' = "loop"
    /\ UNCHANGED <<content, data, listing, directory, artifacts>>
    /\ UNCHANGED scanLocals

\* line 320: the listing is exhausted
BatchDone ==
    /\ bpc = "loop"
    /\ fidx > Len(listing)
    /\ bpc' = "done"
    /\ UNCHANGED <<content, data, raised, listing, directory, fidx, log, artifacts>>
    /\ UNCHANGED scanLocals

NextBatch ==
    \/ BatchSkip
    \/ BatchAnalyzer
    \/ BatchReadReturns
    \/ BatchOpenRaises
    \/ BatchReadRaises
    \/ BatchSaveReturns
    \/ BatchSaveRaises
    \/ BatchExcept
    \/ BatchDone

SpecBatch == InitBatch /\ [][NextBatch]_vars

\* the candidate files the loop has dealt with
Handled == {k \in 1..(fidx - 1) : IsCandidate(listing[k])}

\* a program that is running takes its next step
SpecBatchRuns == SpecBatch /\ WF_vars(NextBatch)

\* what each content does to read_file
ScanOutcomes == [r \in DOMAIN FreshReads |-> FreshReads[r].raised]

\* what a candidate file does to read_file
ScanOutcome(name) ==
    IF ~directory[name].readable THEN "IOError"
    ELSE ScanOutcomes[directory[name].lines]

\* the printed lines are, in listing order, one per candidate file dealt with,
\* naming it, and a failure is printed with the exception that caused it
LogMatchesListing ==
    /\ Len(log) = Cardinality(Handled)
    /\ \A j \in 1..Len(log) :
          /\ log[j].filename = listing[Nth(Handled, j)]
          /\ log[j].text = "Successfully processed" =>
                ScanOutcome(log[j].filename) = "none"
          /\ log[j].text = "Error processing" =>
                /\ log[j].error # "none"
                /\ log[j].error # "OSError" => log[j].error = ScanOutcome(log[j].filename)
                /\ log[j].error = "OSError" => ScanOutcome(log[j].filename) = "none"

\* C10: every candidate file of the listing is scanned, and rendered when the
\* scan returns, whatever happened to the files before it: a failure is printed
\* with the name of the file, the loop goes on with the next name, is done
\* only when the listing is exhausted, and is done in the end.
C10_BatchFailureIsolation ==
    /\ [](LogMatchesListing /\ (bpc = "done" => fidx = Len(listing) + 1))
    /\ <>(bpc = "done")

C10_Witness ==
    /\ bpc = "done"
    /\ Len(log) = 3
    /\ log[1].text = "Error processing"
    /\ log[1].error = "ValueError"
    /\ log[2].text = "Successfully processed"
    /\ log[3].error = "IOError"
    /\ artifacts # <<>>

\* the record a scan of the file in hand, and of nothing else, gives
OwnRecord == FreshReads[directory[listing[fidx]].lines].data

\* C14: save_results leaves the record as it is; each file is read into a
\* record that starts empty, so the record handed to save_results and every
\* artifact written for a file come from the lines of that file alone.
C14_RecordPerFile ==
    /\ [](bpc = "read_file" => data = EmptyRecord)
    /\ [](bpc = "save_results" => data = OwnRecord)
    /\ [][bpc = "save_results" =>
            /\ data' = data
            /\ \E k \in 0..Len(SaveResults(listing[fidx], OwnRecord)) :
                  artifacts' = artifacts
                      \o SubSeq(SaveResults(listing[fidx], OwnRecord), 1, k)
            /\ bpc' = "loop" =>
                  artifacts' = artifacts \o SaveResults(listing[fidx], OwnRecord)]_vars

C14_Witness ==
    /\ bpc = "save_results"
    /\ fidx = 2
    /\ log # <<>>
    /\ log[1].text = "Successfully processed"
    /\ directory[listing[1]].lines = GoodReport
    /\ directory[listing[2]].readable
    /\ directory[listing[2]].lines = <<>>
    /\ data = EmptyRecord
    /\ Len(artifacts) = 4

\* C19: artifacts are written only by save_results, and save_results is
\* called for a file only when read_file has returned for it without an error; a
\* file that cannot be opened or in which a pass raises writes nothing, whatever
\* the passes before the failing one have put in its record.
C19_NoArtifactsFromFailedScan ==
    /\ [][artifacts' # artifacts => bpc = "save_results"]_vars
    /\ [](bpc = "save_results" =>
            (raised = "none" /\ ScanOutcome(listing[fidx]) = "none"))
    /\ [][(bpc = "read_file" /\ ScanOutcome(listing[fidx]) # "none")
            => (bpc' = "except" /\ artifacts' = artifacts)]_vars

C19_Witness ==
    /\ bpc = "except"
    /\ fidx = 1
    /\ raised = "ValueError"
    /\ directory[listing[1]].lines = FusedReport
    /\ data.energies # <<>>
    /\ data.geometries # <<>>
    /\ artifacts = <<>>

=============================================================================
